---- MODULE Spec2Model ----
(***************************************************************************)
(* Model of the ygadata Go SDK: the producer API (YgaAnalytics.Track /     *)
(* UserSet / Flush / Close), the BatchConsumer (Add, Flush, uploadEvents,  *)
(* FlushAll, Close, the auto-flush ticker) and the per-envelope upload     *)
(* goroutines with their 3-attempt retry loop.                             *)
(*                                                                         *)
(* Every goroutine of the program is a process with a program counter.     *)
(* A step is one statement or one critical section of the Go code; the     *)
(* two sync.RWMutex locks are modelled by their write holder (the read     *)
(* sections getBufferLength / getCacheLength are single statements).       *)
(***************************************************************************)
EXTENDS Integers, Sequences, FiniteSets, TLC

\* ---------------------------------------------------------------- bounds
\* Calls of Track/UserSet that pass validation, over the whole run.
MaxAdds == 3
\* Saturation point of the per-FlushAll count of Flush calls.
MaxFlushCount == 2
\* Longest cache the deferred eviction is applied to on its own.
MaxCacheLen == 5

\* ------------------------------------------------------ program constants
DefaultBatchSize == 20
MaxBatchSize == 200
DefaultCacheCapacity == 50
MaxAttempts == 3
StatusOK == 200
AcceptedCode == 10000
MaxKeyLen == 50

\* ------------------------------------------------------------- processes
\* Goroutines of the application that call Track/UserSet; Main also calls Flush and
\* Close. Timer is the ticker goroutine initBatchConsumer starts under AutoFlush.
Producers == {"p1", "p2"}
Main == "p1"
Timer == "timer"
Procs == Producers \cup {Timer}
NoProc == "none"

VARIABLES
    batchSize,      \* c.batchSize
    cacheCapacity,  \* c.cacheCapacity
    compress,       \* c.compress
    autoFlush,      \* config.AutoFlush: whether the ticker goroutine exists
    buffer,         \* c.buffer
    cacheBuffer,    \* c.cacheBuffer
    bufferMutex,    \* write holder of c.bufferMutex
    cacheMutex,     \* write holder of c.cacheMutex
    pc,             \* position of every goroutine that calls the engine
    op,             \* the public operation a goroutine is in
    data,           \* the Data record yga.add hands to consumer.Add
    err,            \* Flush's local err (line 212), until Flush returns it
    started,        \* upload goroutines the public call a goroutine is in has started
    nFlush,         \* Flush calls made so far by the FlushAll in progress
    tasks,          \* upload goroutines, in creation order
    nAdd,           \* producer calls that passed validation so far
    last            \* the public call that returned in the last step, and its error

vars == <<batchSize, cacheCapacity, compress, autoFlush, buffer, cacheBuffer,
          bufferMutex, cacheMutex, pc, op, data, err, started, nFlush, tasks, nAdd,
          last>>

cfgVars == <<batchSize, cacheCapacity, compress, autoFlush>>

\* --------------------------------------------------------- pure functions

\* KEY_PATTERN = "^[a-zA-Z#][A-Za-z0-9_]{0,49}$"; names are sequences of characters.
Letters == {"a", "b", "c", "d", "e", "f", "g", "h", "i", "j", "k", "l", "m",
            "n", "o", "p", "q", "r", "s", "t", "u", "v", "w", "x", "y", "z",
            "A", "B", "C", "D", "E", "F", "G", "H", "I", "J", "K", "L", "M",
            "N", "O", "P", "Q", "R", "S", "T", "U", "V", "W", "X", "Y", "Z"}
Digits == {"0", "1", "2", "3", "4", "5", "6", "7", "8", "9"}

checkPattern(name) ==
    /\ Len(name) >= 1
    /\ name[1] \in Letters \cup {"#"}
    /\ Len(name) - 1 <= MaxKeyLen - 1
    /\ \A i \in 2..Len(name) : name[i] \in Letters \cup Digits \cup {"_"}

\* formatProperties: nil when the event name (if any) and every key match.
\* A property map is its key set, or nil.
NilProps == [nil |-> TRUE, keys |-> {}]
Props(keys) == [nil |-> FALSE, keys |-> keys]
formatProperties(eventName, properties) ==
    IF eventName # <<>> /\ ~checkPattern(eventName) THEN "Invalid event name"
    ELSE IF ~properties.nil /\ \E k \in properties.keys : ~checkPattern(k)
         THEN "Invalid property key"
    ELSE "nil"

\* initBatchConsumer's clamps.
clampBatchSize(n) ==
    IF n > MaxBatchSize THEN MaxBatchSize
    ELSE IF n <= 0 THEN DefaultBatchSize
    ELSE n

clampCacheCapacity(n) == IF n <= 0 THEN DefaultCacheCapacity ELSE n

\* ------------------------------------------------------------ producer API

\* Identifiers are strings: the empty one and a non-empty one of each kind.
DeviceIds == {"", "d1"}
UserIds == {"", "u1"}
Login == <<"l", "o", "g", "i", "n">>
Level == Props({<<"l", "e", "v", "e", "l">>})
EventNames == {<<>>, Login, <<"1", "b", "a", "d", "-">>}
PropertyMaps == {NilProps, Level, Props({<<"b", "a", "d", " ">>})}
\* Calls of concurrent producers: arguments that pass validation.
ValidUserIds == {"u1"}
UserEventName == <<"u", "s", "e", "r">>

NoData == [DeviceId |-> "-", UserId |-> "-"]

\* Mutant of identityMissing: the test on DeviceId inverted.
identityMissingInverted(DeviceId, UserId) == Len(DeviceId) # 0 /\ Len(UserId) = 0

\* yga.add's identity check (line 139).
identityMissing(DeviceId, UserId) == Len(DeviceId) = 0 /\ Len(UserId) = 0

\* The Data literal yga.add builds (lines 143-153): UserId is filled from DeviceId.
MakeData(DeviceId, UserId) == [DeviceId |-> DeviceId, UserId |-> DeviceId]

\* yga.add up to, not including, consumer.Add: the error it returns and the Data built.
ygaAdd(DeviceId, UserId, EventName, properties) ==
    IF identityMissing(DeviceId, UserId)
    THEN [err |-> "device_id and user_id cannot be empty", data |-> NoData]
    ELSE IF formatProperties(EventName, properties) # "nil"
         THEN [err |-> formatProperties(EventName, properties), data |-> NoData]
         ELSE [err |-> "nil", data |-> MakeData(DeviceId, UserId)]

\* yga.track: the event name must be given; a nil property map merges to an empty map.
ygaTrack(DeviceId, UserId, EventName, properties) ==
    IF Len(EventName) = 0
    THEN [err |-> "the event name must be provided", data |-> NoData]
    ELSE ygaAdd(DeviceId, UserId, EventName,
                IF properties.nil THEN Props({}) ELSE properties)

\* yga.user: the property map must not be nil; the event name passed on is "user".
ygaUser(DeviceId, UserId, properties) ==
    IF properties.nil THEN [err |-> "properties is nil", data |-> NoData]
    ELSE ygaAdd(DeviceId, UserId, UserEventName, properties)

\* ------------------------------------------------------------ the engine

\* UploadData built by Add (line 178); id is the position in append order.
Envelope(dt, id) == [id |-> id, DeviceId |-> dt.DeviceId, UserId |-> dt.UserId]

\* Mutant of bufferFull: > for >=.
bufferFullStrict(buf) == Len(buf) > batchSize

\* Add's trigger (line 181), evaluated left to right.
bufferFull(buf) == Len(buf) >= batchSize
cacheNonEmpty(cache) == Len(cache) > 0

\* Mutant of shouldPromote: the empty-cache disjunct is missing.
shouldPromoteWhenFull(buf, cache) == Len(buf) >= batchSize

\* Flush's promotion rule (line 206).
shouldPromote(buf, cache) == Len(cache) = 0 \/ Len(buf) >= batchSize

\* Mutant of promote: the buffer is not reset after it is copied (line 210 missing).
promoteKeepsBuffer(buf, cache) ==
    IF shouldPromote(buf, cache)
    THEN [buffer |-> buf, cacheBuffer |-> cache \o buf]
    ELSE [buffer |-> buf, cacheBuffer |-> cache]

\* Flush lines 206-211: the buffer and the cache after the promotion decision.
promote(buf, cache) ==
    IF shouldPromote(buf, cache)
    THEN [buffer |-> <<>>, cacheBuffer |-> cache \o buf]
    ELSE [buffer |-> buf, cacheBuffer |-> cache]

\* One upload goroutine per entry of the snapshot (lines 222-239), i = 0, running.
NewTask(e) == [env |-> e, i |-> 0, st |-> "running"]

\* Mutant of uploadEvents: the snapshot is walked from its last entry to its first.
uploadEventsBackwards(cache) ==
    [cacheBuffer |-> <<>>,
     spawned |-> [k \in 1..Len(cache) |-> NewTask(cache[Len(cache) + 1 - k])],
     err |-> "nil"]

\* Mutant of uploadEvents: the cache is not cleared (line 221 missing).
uploadEventsKeepsCache(cache) ==
    [cacheBuffer |-> cache,
     spawned |-> [k \in 1..Len(cache) |-> NewTask(cache[k])],
     err |-> "nil"]

\* Mutant of uploadEvents: it reports a failed upload it knows of as its error.
uploadEventsReportsFailure(cache) ==
    [cacheBuffer |-> <<>>,
     spawned |-> [k \in 1..Len(cache) |-> NewTask(cache[k])],
     err |-> IF \E t \in 1..Len(tasks) : tasks[t].st = "dropped"
             THEN "upload failed" ELSE "nil"]

\* Mutant of uploadEvents: the loop stops one entry short of the snapshot.
uploadEventsSkipsLast(cache) ==
    [cacheBuffer |-> <<>>,
     spawned |-> [k \in 1..(Len(cache) - 1) |-> NewTask(cache[k])],
     err |-> "nil"]

\* uploadEvents (lines 216-242): snapshot the cache, clear it, start the goroutines.
uploadEvents(cache) ==
    [cacheBuffer |-> <<>>,
     spawned |-> [k \in 1..Len(cache) |-> NewTask(cache[k])],
     err |-> "nil"]

\* Mutant of evict: the entry removed is the newest one.
evictFromBack(cache) ==
    IF Len(cache) > cacheCapacity THEN SubSeq(cache, 1, Len(cache) - 1) ELSE cache

\* Flush's deferred eviction (lines 200-204): one entry off the front when over capacity.
evict(cache) == IF Len(cache) > cacheCapacity THEN Tail(cache) ELSE cache

\* ------------------------------------------------------------ transport

\* What one c.send call can meet: whether gzip fails, whether the HTTP client returns
\* an error, and otherwise the response's status, whether its body parses, its Status.
Net(g, h, st, ps, bs) ==
    [gzipFails |-> g, httpFails |-> h, status |-> st, parses |-> ps, Status |-> bs]
NetBehaviours ==
    {Net(TRUE, FALSE, StatusOK, TRUE, AcceptedCode),
     Net(FALSE, TRUE, StatusOK, TRUE, AcceptedCode),
     Net(FALSE, FALSE, 500, TRUE, AcceptedCode),
     Net(FALSE, FALSE, StatusOK, FALSE, AcceptedCode),
     Net(FALSE, FALSE, StatusOK, TRUE, 0),
     Net(FALSE, FALSE, StatusOK, TRUE, AcceptedCode)}

\* send (lines 259-303): (statusCode, Code, err) for one attempt.
send(net) ==
    IF compress /\ net.gzipFails THEN [statusCode |-> 0, Code |-> 0, err |-> TRUE]
    ELSE IF net.httpFails THEN [statusCode |-> 0, Code |-> 0, err |-> TRUE]
    ELSE IF net.status = StatusOK
         THEN IF ~net.parses
              THEN [statusCode |-> net.status, Code |-> 1, err |-> TRUE]
              ELSE [statusCode |-> net.status, Code |-> net.Status, err |-> FALSE]
         ELSE [statusCode |-> net.status, Code |-> -1, err |-> FALSE]

\* Mutant of accepted: the business code is not looked at.
acceptedAnyCode(r) == r.statusCode = StatusOK /\ ~r.err

\* The retry loop's success test (line 229).
accepted(r) == r.statusCode = StatusOK /\ r.Code = AcceptedCode /\ ~r.err

\* An upload goroutine that has returned: its loop variable i is gone.
Finished(t, st) == [env |-> t.env, i |-> 0, st |-> st]

\* Mutant of attempt: the loop bound is i <= 3.
attemptOneMore(t, r) ==
    IF accepted(r) THEN Finished(t, "ok")
    ELSE IF t.i + 1 <= MaxAttempts THEN [t EXCEPT !.i = t.i + 1]
    ELSE Finished(t, "dropped")

\* One iteration of the retry loop (lines 227-237) on task t with send result r: break
\* on success, otherwise i++ and leave the loop when i reaches 3.
attempt(t, r) ==
    IF accepted(r) THEN Finished(t, "ok")
    ELSE IF t.i + 1 < MaxAttempts THEN [t EXCEPT !.i = t.i + 1]
    ELSE Finished(t, "dropped")

\* ---------------------------------------------------------------- Init

\* The BatchConfig values the engine is constructed with.
Configs ==
    {[BatchSize |-> 1, CacheCapacity |-> 1, AutoFlush |-> FALSE, Compress |-> TRUE],
     [BatchSize |-> 0, CacheCapacity |-> 0, AutoFlush |-> FALSE, Compress |-> FALSE],
     [BatchSize |-> 2, CacheCapacity |-> 1, AutoFlush |-> TRUE, Compress |-> TRUE]}

NoCall == [p |-> NoProc, op |-> "none", ret |-> "none", started |-> {}]

\* The configurations of the single-goroutine application: no ticker.
ApiConfigs ==
    {[BatchSize |-> 1, CacheCapacity |-> 1, AutoFlush |-> FALSE, Compress |-> TRUE],
     [BatchSize |-> 2, CacheCapacity |-> 1, AutoFlush |-> FALSE, Compress |-> FALSE],
     [BatchSize |-> 3, CacheCapacity |-> 0, AutoFlush |-> FALSE, Compress |-> TRUE]}

\* The state initBatchConsumer leaves (lines 109-173) for a configuration of cs.
InitWith(cs) ==
    /\ \E config \in cs :
         /\ batchSize = clampBatchSize(config.BatchSize)
         /\ cacheCapacity = clampCacheCapacity(config.CacheCapacity)
         /\ compress = config.Compress
         /\ autoFlush = config.AutoFlush
    /\ buffer = <<>>
    /\ cacheBuffer = <<>>
    /\ bufferMutex = NoProc
    /\ cacheMutex = NoProc
    /\ pc = [p \in Procs |-> "idle"]
    /\ op = [p \in Procs |-> "none"]
    /\ data = [p \in Producers |-> NoData]
    /\ err = [p \in Procs |-> "none"]
    /\ started = [p \in Procs |-> {}]
    /\ nFlush = 0
    /\ tasks = <<>>
    /\ nAdd = 0
    /\ last = NoCall

Init == InitWith(Configs)
InitApi == InitWith(ApiConfigs)

\* ------------------------------------------------------------- actions

\* Adds that have not appended yet.
NotAppended == {q \in Producers : pc[q] = "add"}

\* Public call o of goroutine p returns e.
Return(p, o, e) ==
    /\ pc' = [pc EXCEPT ![p] = "idle"]
    /\ op' = [op EXCEPT ![p] = "none"]
    /\ started' = [started EXCEPT ![p] = {}]
    /\ last' = [p |-> p, op |-> o, ret |-> e, started |-> started[p]]

\* A step in which no public call returns and no upload goroutine starts.
NoReturn == last' = NoCall /\ UNCHANGED started

\* A producer call with result r (lines 94-126, 138-161): an error returns at once,
\* otherwise yga.add calls consumer.Add with the Data built.
Produce(p, o, r) ==
    /\ pc[p] = "idle"
    /\ nAdd < MaxAdds
    /\ IF r.err # "nil"
       THEN /\ Return(p, o, r.err)
            /\ UNCHANGED <<data, nAdd>>
       ELSE /\ pc' = [pc EXCEPT ![p] = "add"]
            /\ op' = [op EXCEPT ![p] = "add"]
            /\ NoReturn
            /\ data' = [data EXCEPT ![p] = r.data]
            /\ nAdd' = nAdd + 1
    /\ UNCHANGED <<cfgVars, buffer, cacheBuffer, bufferMutex, cacheMutex, err,
                   nFlush, tasks>>

\* yga.Track (line 94).
Track(p, DeviceId, UserId, EventName, properties) ==
    Produce(p, "track", ygaTrack(DeviceId, UserId, EventName, properties))

\* yga.UserSet (line 115).
UserSet(p, DeviceId, UserId, properties) ==
    Produce(p, "user_set", ygaUser(DeviceId, UserId, properties))

\* Add lines 176-179: lock the buffer, append the envelope, unlock.
AddAppend(p) ==
    /\ pc[p] = "add"
    /\ bufferMutex = NoProc
    /\ buffer' = Append(buffer,
                        Envelope(data[p], nAdd - Cardinality(NotAppended) + 1))
    /\ data' = [data EXCEPT ![p] = NoData]
    /\ pc' = [pc EXCEPT ![p] = "add_chkbuf"]
    /\ NoReturn
    /\ UNCHANGED <<cfgVars, cacheBuffer, bufferMutex, cacheMutex, op, err, nFlush,
                   tasks, nAdd>>

\* Add: c.getBufferLength() >= c.batchSize (line 181, left operand).
AddCheckBuffer(p) ==
    /\ pc[p] = "add_chkbuf"
    /\ bufferMutex = NoProc
    /\ pc' = [pc EXCEPT ![p] = IF bufferFull(buffer) THEN "fl_lockcache"
                               ELSE "add_chkcache"]
    /\ NoReturn
    /\ UNCHANGED <<cfgVars, buffer, cacheBuffer, bufferMutex, cacheMutex, op, data,
                   err, nFlush, tasks, nAdd>>

\* Add: c.getCacheLength() > 0 (line 181, right operand), else return nil (line 186).
AddCheckCache(p) ==
    /\ pc[p] = "add_chkcache"
    /\ cacheMutex = NoProc
    /\ IF cacheNonEmpty(cacheBuffer)
       THEN /\ pc' = [pc EXCEPT ![p] = "fl_lockcache"]
            /\ NoReturn
            /\ UNCHANGED op
       ELSE Return(p, op[p], "nil")
    /\ UNCHANGED <<cfgVars, buffer, cacheBuffer, bufferMutex, cacheMutex, data, err,
                   nFlush, tasks, nAdd>>

\* yga.Flush is called (line 129).
FlushCall(p) ==
    /\ pc[p] = "idle"
    /\ pc' = [pc EXCEPT ![p] = "fl_lockcache"]
    /\ op' = [op EXCEPT ![p] = "flush"]
    /\ NoReturn
    /\ UNCHANGED <<cfgVars, buffer, cacheBuffer, bufferMutex, cacheMutex, data, err,
                   nFlush, tasks, nAdd>>

\* The ticker goroutine's <-ticker.C; c.Flush() (lines 166-169).
TimerTick ==
    /\ autoFlush
    /\ pc[Timer] = "idle"
    /\ pc' = [pc EXCEPT ![Timer] = "fl_lockcache"]
    /\ op' = [op EXCEPT ![Timer] = "timer"]
    /\ NoReturn
    /\ UNCHANGED <<cfgVars, buffer, cacheBuffer, bufferMutex, cacheMutex, data, err,
                   nFlush, tasks, nAdd>>

\* Flush: c.cacheMutex.Lock() (line 190).
FlushLockCache(p) ==
    /\ pc[p] = "fl_lockcache"
    /\ cacheMutex = NoProc
    /\ cacheMutex' = p
    /\ pc' = [pc EXCEPT ![p] = "fl_lockbuf"]
    /\ NoReturn
    /\ UNCHANGED <<cfgVars, buffer, cacheBuffer, bufferMutex, op, data, err, nFlush,
                   tasks, nAdd>>

\* Flush: c.bufferMutex.Lock() (line 193).
FlushLockBuffer(p) ==
    /\ pc[p] = "fl_lockbuf"
    /\ bufferMutex = NoProc
    /\ bufferMutex' = p
    /\ pc' = [pc EXCEPT ![p] = "fl_body"]
    /\ NoReturn
    /\ UNCHANGED <<cfgVars, buffer, cacheBuffer, cacheMutex, op, data, err, nFlush,
                   tasks, nAdd>>

\* Flush returns e to its caller: Add, yga.Flush and the ticker are done with it;
\* FlushAll returns an error and loops otherwise (lines 245-249).
FlushReturn(p, e) ==
    IF op[p] = "close" /\ e = "nil"
    THEN /\ pc' = [pc EXCEPT ![p] = "fa_chkcache"]
         /\ NoReturn
         /\ UNCHANGED op
    ELSE Return(p, op[p], e)

\* Flush lines 196-212, under both locks: return nil when both collections are empty
\* (the deferred unlocks run); otherwise decide the promotion and call uploadEvents.
FlushBody(p) ==
    /\ pc[p] = "fl_body"
    /\ IF Len(buffer) = 0 /\ Len(cacheBuffer) = 0
       THEN /\ bufferMutex' = NoProc
            /\ cacheMutex' = NoProc
            /\ FlushReturn(p, "nil")
            /\ UNCHANGED <<buffer, cacheBuffer, tasks, err>>
       ELSE LET m == promote(buffer, cacheBuffer)
                r == uploadEvents(m.cacheBuffer)
            IN /\ buffer' = m.buffer
               /\ cacheBuffer' = r.cacheBuffer
               /\ tasks' = tasks \o r.spawned
               /\ started' = [started EXCEPT
                                ![p] = @ \cup (Len(tasks) + 1 .. Len(tasks'))]
               /\ err' = [err EXCEPT ![p] = r.err]
               /\ pc' = [pc EXCEPT ![p] = "fl_defer"]
               /\ last' = NoCall
               /\ UNCHANGED <<bufferMutex, cacheMutex, op>>
    /\ UNCHANGED <<cfgVars, data, nFlush, nAdd>>

\* Mutant of FlushDefer: Flush joins the upload goroutines it started before its
\* deferred calls run.
FlushDeferJoinsUploads(p) ==
    /\ pc[p] = "fl_defer"
    /\ \A t \in started[p] : tasks[t].st # "running"
    /\ cacheBuffer' = evict(cacheBuffer)
    /\ bufferMutex' = NoProc
    /\ cacheMutex' = NoProc
    /\ err' = [err EXCEPT ![p] = "none"]
    /\ FlushReturn(p, err[p])
    /\ UNCHANGED <<cfgVars, buffer, data, nFlush, tasks, nAdd>>

\* Mutant of FlushDefer: the deferred c.bufferMutex.Unlock() (line 194) is missing.
FlushDeferKeepsBufferLock(p) ==
    /\ pc[p] = "fl_defer"
    /\ cacheBuffer' = evict(cacheBuffer)
    /\ cacheMutex' = NoProc
    /\ err' = [err EXCEPT ![p] = "none"]
    /\ FlushReturn(p, err[p])
    /\ UNCHANGED <<cfgVars, buffer, bufferMutex, data, nFlush, tasks, nAdd>>

\* Flush line 213 and its deferred calls: the eviction, then both unlocks.
FlushDefer(p) ==
    /\ pc[p] = "fl_defer"
    /\ cacheBuffer' = evict(cacheBuffer)
    /\ bufferMutex' = NoProc
    /\ cacheMutex' = NoProc
    /\ err' = [err EXCEPT ![p] = "none"]
    /\ FlushReturn(p, err[p])
    /\ UNCHANGED <<cfgVars, buffer, data, nFlush, tasks, nAdd>>

\* yga.Close is called (lines 134, 253): FlushAll.
CloseCall(p) ==
    /\ pc[p] = "idle"
    /\ pc' = [pc EXCEPT ![p] = "fa_chkcache"]
    /\ op' = [op EXCEPT ![p] = "close"]
    /\ NoReturn
    /\ nFlush' = 0
    /\ UNCHANGED <<cfgVars, buffer, cacheBuffer, bufferMutex, cacheMutex, data, err,
                   tasks, nAdd>>

\* FlushAll calls Flush (line 246).
CallFlush(p) ==
    /\ pc' = [pc EXCEPT ![p] = "fl_lockcache"]
    /\ nFlush' = IF nFlush < MaxFlushCount THEN nFlush + 1 ELSE nFlush
    /\ NoReturn
    /\ UNCHANGED op

\* FlushAll: c.getCacheLength() > 0 (line 245, left operand).
FlushAllCheckCache(p) ==
    /\ pc[p] = "fa_chkcache"
    /\ cacheMutex = NoProc
    /\ IF cacheNonEmpty(cacheBuffer)
       THEN CallFlush(p)
       ELSE /\ pc' = [pc EXCEPT ![p] = "fa_chkbuf"]
            /\ NoReturn
            /\ UNCHANGED <<op, nFlush>>
    /\ UNCHANGED <<cfgVars, buffer, cacheBuffer, bufferMutex, cacheMutex, data, err,
                   tasks, nAdd>>

\* FlushAll: c.getBufferLength() > 0 (line 245, right operand), else return nil.
FlushAllCheckBuffer(p) ==
    /\ pc[p] = "fa_chkbuf"
    /\ bufferMutex = NoProc
    /\ IF Len(buffer) > 0
       THEN CallFlush(p)
       ELSE /\ Return(p, op[p], "nil")
            /\ nFlush' = 0
    /\ UNCHANGED <<cfgVars, buffer, cacheBuffer, bufferMutex, cacheMutex, data, err,
                   tasks, nAdd>>

\* One send attempt of upload goroutine t (lines 227-237), for any transport behaviour.
TaskSend(t) ==
    /\ tasks[t].st = "running"
    /\ \E net \in NetBehaviours :
         tasks' = [tasks EXCEPT ![t] = attempt(tasks[t], send(net))]
    /\ NoReturn
    /\ UNCHANGED <<cfgVars, buffer, cacheBuffer, bufferMutex, cacheMutex, pc, op,
                   data, err, nFlush, nAdd>>

\* The next step of goroutine p inside the call it is in.
Step(p) ==
    \/ AddAppend(p) \/ AddCheckBuffer(p) \/ AddCheckCache(p)
    \/ FlushLockCache(p) \/ FlushLockBuffer(p) \/ FlushBody(p) \/ FlushDefer(p)
    \/ FlushAllCheckCache(p) \/ FlushAllCheckBuffer(p)

\* Goroutine p is inside a call and cannot take its next step: it waits for a lock.
Blocked(p) == pc[p] # "idle" /\ ~ENABLED Step(p)

\* The whole application: two producers, one of them also flushing and closing, the
\* ticker, and the upload goroutines.
Next ==
    \/ \E p \in Producers, uid \in ValidUserIds : Track(p, "d1", uid, Login, NilProps)
    \/ \E p \in Producers, uid \in ValidUserIds : UserSet(p, "d1", uid, Level)
    \/ \E p \in Producers : AddAppend(p)
    \/ \E p \in Producers : AddCheckBuffer(p)
    \/ \E p \in Producers : AddCheckCache(p)
    \/ FlushCall(Main)
    \/ CloseCall(Main)
    \/ FlushAllCheckCache(Main)
    \/ FlushAllCheckBuffer(Main)
    \/ TimerTick
    \/ \E p \in Procs : FlushLockCache(p)
    \/ \E p \in Procs : FlushLockBuffer(p)
    \/ \E p \in Procs : FlushBody(p)
    \/ \E p \in Procs : FlushDefer(p)
    \/ \E t \in 1..Len(tasks) : TaskSend(t)

Spec == Init /\ [][Next]_vars

\* One application goroutine that only produces, with every argument the API can be
\* given, the engine steps its Adds take and the upload goroutines they start.
NextApi ==
    \/ \E dev \in DeviceIds, uid \in UserIds, ev \in EventNames, pr \in PropertyMaps :
          Track(Main, dev, uid, ev, pr)
    \/ \E dev \in DeviceIds, uid \in UserIds, pr \in PropertyMaps :
          UserSet(Main, dev, uid, pr)
    \/ AddAppend(Main)
    \/ AddCheckBuffer(Main)
    \/ AddCheckCache(Main)
    \/ FlushLockCache(Main)
    \/ FlushLockBuffer(Main)
    \/ FlushBody(Main)
    \/ FlushDefer(Main)
    \/ \E t \in 1..Len(tasks) : TaskSend(t)

SpecApi == InitApi /\ [][NextApi]_vars

\* The whole application, with no Add running while FlushAll runs: no producer call
\* starts during a Close, and Close is called only when no Add is in progress.
AddRunning == \E p \in Producers : op[p] = "add"
Closing == op[Main] = "close"

NextQuiet ==
    \/ \E p \in Producers, uid \in ValidUserIds :
          ~Closing /\ Track(p, "d1", uid, Login, NilProps)
    \/ \E p \in Producers, uid \in ValidUserIds :
          ~Closing /\ UserSet(p, "d1", uid, Level)
    \/ \E p \in Producers : AddAppend(p)
    \/ \E p \in Producers : AddCheckBuffer(p)
    \/ \E p \in Producers : AddCheckCache(p)
    \/ FlushCall(Main)
    \/ ~AddRunning /\ CloseCall(Main)
    \/ FlushAllCheckCache(Main)
    \/ FlushAllCheckBuffer(Main)
    \/ TimerTick
    \/ \E p \in Procs : FlushLockCache(p)
    \/ \E p \in Procs : FlushLockBuffer(p)
    \/ \E p \in Procs : FlushBody(p)
    \/ \E p \in Procs : FlushDefer(p)
    \/ \E t \in 1..Len(tasks) : TaskSend(t)

SpecQuiet == Init /\ [][NextQuiet]_vars

\* One producing goroutine, which also flushes and closes, with the ticker and without it,
\* and a batch size the bounded run never reaches by Adds alone.
AutoConfigs ==
    {[BatchSize |-> MaxAdds + 1, CacheCapacity |-> 1, AutoFlush |-> TRUE,
      Compress |-> TRUE],
     [BatchSize |-> MaxAdds, CacheCapacity |-> 1, AutoFlush |-> FALSE,
      Compress |-> TRUE]}

InitAuto == InitWith(AutoConfigs)

NextAuto ==
    \/ Track(Main, "d1", "u1", Login, NilProps)
    \/ AddAppend(Main)
    \/ AddCheckBuffer(Main)
    \/ AddCheckCache(Main)
    \/ FlushCall(Main)
    \/ CloseCall(Main)
    \/ FlushAllCheckCache(Main)
    \/ FlushAllCheckBuffer(Main)
    \/ TimerTick
    \/ \E p \in {Main, Timer} : FlushLockCache(p)
    \/ \E p \in {Main, Timer} : FlushLockBuffer(p)
    \/ \E p \in {Main, Timer} : FlushBody(p)
    \/ \E p \in {Main, Timer} : FlushDefer(p)
    \/ \E t \in 1..Len(tasks) : TaskSend(t)

\* The ticker fires again and again (time.Ticker), and a goroutine inside Flush that can
\* take its next step infinitely often does take it.
AutoFairness ==
    /\ WF_vars(TimerTick)
    /\ \A p \in {Main, Timer} :
          SF_vars(FlushLockCache(p) \/ FlushLockBuffer(p) \/ FlushBody(p) \/ FlushDefer(p))

SpecAuto == InitAuto /\ [][NextAuto]_vars /\ AutoFairness

\* Flush's deferred eviction on its own, as a function of the cache it finds when
\* Flush returns: a goroutine about to run Flush's deferred calls, for every capacity
\* up to 3 and every cache of up to MaxCacheLen envelopes in append order.
SubSeqs(n) ==
    {[k \in 1..Cardinality(S) |->
         [id |-> CHOOSE x \in S : Cardinality({y \in S : y < x}) = k - 1,
          DeviceId |-> "d1", UserId |-> "d1"]] : S \in SUBSET (1..n)}

InitEvict ==
    /\ batchSize = clampBatchSize(0)
    /\ \E c \in 1..3 : cacheCapacity = clampCacheCapacity(c)
    /\ compress = TRUE
    /\ autoFlush = FALSE
    /\ buffer = <<>>
    /\ cacheBuffer \in SubSeqs(MaxCacheLen)
    /\ bufferMutex = Main
    /\ cacheMutex = Main
    /\ pc = [p \in Procs |-> IF p = Main THEN "fl_defer" ELSE "idle"]
    /\ op = [p \in Procs |-> IF p = Main THEN "flush" ELSE "none"]
    /\ data = [p \in Producers |-> NoData]
    /\ err = [p \in Procs |-> IF p = Main THEN "nil" ELSE "none"]
    /\ started = [p \in Procs |-> {}]
    /\ nFlush = 0
    /\ tasks = <<>>
    /\ nAdd = 0
    /\ last = NoCall

NextEvict == FlushDefer(Main)

SpecEvict == InitEvict /\ [][NextEvict]_vars

\* ------------------------------------------------------------- properties

\* Identifiers of the envelopes handed to upload goroutines, and of those appended.
TaskIds == {tasks[t].env.id : t \in 1..Len(tasks)}
Appended == nAdd - Cardinality(NotAppended)
Settled == \A t \in 1..Len(tasks) : tasks[t].st # "running"
IdsOf(q) == {q[k].id : k \in 1..Len(q)}

\* C1: with a single producer and nothing else flushing, once exactly batchSize calls
\* of Add have returned the buffer is empty, each of the batchSize envelopes has been
\* handed to an upload goroutine, and the cache is empty once the uploads have settled.
C1_BatchDrained ==
    (nAdd = batchSize /\ pc[Main] = "idle")
        => /\ buffer = <<>>
           /\ Len(tasks) = batchSize
           /\ TaskIds = 1..batchSize
           /\ (Settled => cacheBuffer = <<>>)

C1_Witness ==
    /\ batchSize = 2 /\ nAdd = 2 /\ pc[Main] = "idle"
    /\ Len(tasks) = 2 /\ \A t \in 1..Len(tasks) : tasks[t].st = "ok"
    /\ buffer = <<>> /\ cacheBuffer = <<>>

\* C2: whenever no Flush holds the cache lock, that is from the moment any Flush call
\* returns, the cache holds at most cacheCapacity entries.
C2_CacheBounded == cacheMutex = NoProc => Len(cacheBuffer) <= cacheCapacity

\* A Flush that dispatched more entries than the capacity has just returned.
C2_Witness ==
    /\ last.op \in {"add", "flush", "timer"}
    /\ Cardinality(last.started) > cacheCapacity
    /\ cacheMutex = NoProc

\* C3: an upload goroutine makes at most 3 send attempts, stops at its first success,
\* gives up exactly at its third failure, and once it has finished nothing changes it;
\* no envelope has two upload goroutines, and an envelope that was dispatched is in
\* neither the buffer nor the cache again.
C3_RetryPolicy ==
    [][/\ \A t \in 1..Len(tasks) :
            /\ t <= Len(tasks')
            /\ tasks[t].st = "running" => tasks[t].i \in 0..2
            /\ tasks[t].st # "running" => tasks'[t] = tasks[t]
            /\ tasks'[t] # tasks[t] =>
                 \/ tasks'[t].st = "ok"
                 \/ tasks'[t].st = "running" /\ tasks'[t].i = tasks[t].i + 1
                 \/ tasks'[t].st = "dropped" /\ tasks[t].i = 2
       /\ \A t1, t2 \in 1..Len(tasks') :
            t1 # t2 => tasks'[t1].env.id # tasks'[t2].env.id
       /\ \A t \in 1..Len(tasks') :
            tasks'[t].env.id \notin IdsOf(buffer') \cup IdsOf(cacheBuffer')]_vars

\* One envelope was dropped after its third failure, another was accepted, and Flush
\* calls went on after that.
C3_Witness ==
    /\ \E t \in 1..Len(tasks) : tasks[t].st = "dropped"
    /\ \E t \in 1..Len(tasks) : tasks[t].st = "ok"
    /\ \E t \in 1..Len(tasks) : tasks[t].st = "running" /\ tasks[t].i = 2

\* The scheduling FlushAll's termination rests on: a goroutine that is in Flush or in
\* FlushAll's loop and can take its next step infinitely often does take it (sync.RWMutex
\* hands the lock to a waiter that has waited long enough, so no waiter starves).
FlushFairness ==
    /\ \A p \in Procs :
          SF_vars(FlushLockCache(p) \/ FlushLockBuffer(p) \/ FlushBody(p) \/ FlushDefer(p))
    /\ SF_vars(FlushAllCheckCache(Main) \/ FlushAllCheckBuffer(Main))

SpecQuietFair == Init /\ [][NextQuiet]_vars /\ FlushFairness

\* C4: with no Add running concurrently, every FlushAll returns, having called Flush
\* at most once, and when it returns it returns nil with the buffer and the cache
\* both empty.
C4_FlushAllDrains ==
    /\ [](op[Main] = "close" => nFlush <= 1)
    /\ [](last.op = "close" =>
            last.ret = "nil" /\ buffer = <<>> /\ cacheBuffer = <<>>)
    /\ (op[Main] = "close") ~> (last.op = "close")

\* Close was called with envelopes in the buffer and has returned.
C4_Witness == last.op = "close" /\ Cardinality(last.started) >= 2

\* C5: Track or UserSet with the device id and the user id both empty returns an
\* error and changes neither collection: Add is not reached, no upload starts.
C5_EmptyIdentityRejected ==
    [][\A ev \in EventNames, pr \in PropertyMaps :
          (Track(Main, "", "", ev, pr) \/ UserSet(Main, "", "", pr))
              => /\ last'.p = Main
                 /\ last'.ret \notin {"nil", "none"}
                 /\ pc'[Main] = "idle"
                 /\ UNCHANGED <<buffer, cacheBuffer, tasks, data, nAdd>>]_vars

\* The identity error was returned while an envelope was waiting in the buffer.
C5_Witness ==
    /\ last.ret = "device_id and user_id cannot be empty"
    /\ Len(buffer) = 1
    /\ pc[Main] = "idle"

\* C6: every envelope in the buffer carries a device id or a user id.
C6_IdentityPresent ==
    \A k \in 1..Len(buffer) : buffer[k].DeviceId # "" \/ buffer[k].UserId # ""

\* C7: Add, Flush and the ticker's Flush return nil whatever the uploads do.
C7_NoUploadErrorSurfaces == last.op \in {"add", "flush", "timer"} => last.ret = "nil"

\* An Add returned while an upload it started had made no attempt yet, after another
\* envelope had been dropped.
C7_Witness ==
    /\ last.op = "add" /\ last.ret = "nil"
    /\ \E t \in last.started : tasks[t].st = "running" /\ tasks[t].i = 0
    /\ \E t \in 1..Len(tasks) : tasks[t].st = "dropped"

\* C8 as claimed: when Close returns, every upload goroutine started by the Flush
\* calls made inside that Close has finished.
C8_CloseAwaitsOwnUploads ==
    last.op = "close" => \A t \in last.started : tasks[t].st # "running"

\* C8 amended: when Close returns nothing is awaited; every envelope appended so far
\* has been handed to an upload goroutine, each started goroutine being anywhere
\* between its start and its end.
C8_CloseHandsOver ==
    last.op = "close" =>
        /\ last.ret = "nil"
        /\ TaskIds = 1..Appended
        /\ \A t \in last.started :
             /\ t \in 1..Len(tasks)
             /\ tasks[t].st \in {"running", "ok", "dropped"}

\* Close returned while an upload it started and an upload detached by an earlier
\* Add were both still running.
C8_Witness ==
    /\ last.op = "close"
    /\ \E t \in last.started : tasks[t].st = "running" /\ tasks[t].i = 0
    /\ \E t \in (1..Len(tasks)) \ last.started : tasks[t].st = "running"

\* The envelopes of the upload goroutines a step starts, in starting order.
Dispatched == [k \in 1..(Len(tasks') - Len(tasks)) |-> tasks'[Len(tasks) + k].env]

\* C9: a Flush that finds the cache empty or the buffer at the batch size dispatches
\* the cache followed by the whole buffer, in order, and empties the buffer; otherwise
\* it leaves the buffer alone and dispatches the cache only.
C9_PromotionRule ==
    [][\A p \in Procs :
          (pc[p] = "fl_body" /\ pc'[p] = "fl_defer") =>
              IF Len(cacheBuffer) = 0 \/ Len(buffer) >= batchSize
              THEN buffer' = <<>> /\ Dispatched = cacheBuffer \o buffer
              ELSE buffer' = buffer /\ Dispatched = cacheBuffer]_vars

\* A Flush promoted a buffer below the batch size because the cache was empty.
C9_Witness ==
    \E p \in Procs :
        /\ pc[p] = "fl_defer"
        /\ Cardinality(started[p]) = 2
        /\ batchSize > 2
        /\ buffer = <<>>

\* C10: Add appends exactly one envelope at the end of the buffer and changes nothing
\* else; it then calls Flush exactly when the buffer length it reads is at least the
\* batch size or the cache length it reads is positive, and otherwise returns nil
\* having started no upload.
C10_AddTrigger ==
    [][\A p \in Producers :
          /\ (pc[p] = "add" /\ pc'[p] # "add") =>
                /\ Len(buffer') = Len(buffer) + 1
                /\ SubSeq(buffer', 1, Len(buffer)) = buffer
                /\ pc'[p] = "add_chkbuf"
                /\ UNCHANGED <<cacheBuffer, tasks>>
          /\ (pc[p] = "add_chkbuf" /\ pc'[p] # "add_chkbuf") =>
                /\ pc'[p] = IF Len(buffer) >= batchSize THEN "fl_lockcache"
                            ELSE "add_chkcache"
                /\ UNCHANGED <<buffer, cacheBuffer, tasks>>
          /\ (pc[p] = "add_chkcache" /\ pc'[p] # "add_chkcache") =>
                /\ IF Len(cacheBuffer) > 0 THEN pc'[p] = "fl_lockcache"
                   ELSE /\ pc'[p] = "idle"
                        /\ last' = [p |-> p, op |-> "add", ret |-> "nil",
                                    started |-> {}]
                /\ UNCHANGED <<buffer, cacheBuffer, tasks>>]_vars

\* One Add returned without calling Flush, leaving its envelope in the buffer, after
\* an earlier Add had called Flush.
C10_Witness ==
    /\ last.op = "add" /\ last.started = {}
    /\ Len(buffer) = 1
    /\ Len(tasks) = 2

C12_LockDiscipline ==
    /\ bufferMutex # NoProc => cacheMutex = bufferMutex
    /\ bufferMutex # NoProc => pc[bufferMutex] \in {"fl_body", "fl_defer"}
    /\ cacheMutex # NoProc => pc[cacheMutex] \in {"fl_lockbuf", "fl_body", "fl_defer"}
    /\ \A p \in Procs :
         Blocked(p) => \E q \in Procs : cacheMutex = q /\ ~Blocked(q)

\* The ticker's Flush holds both locks while one producer waits for the cache lock
\* in Flush and the other waits for the buffer lock in Add.
C12_Witness ==
    /\ cacheMutex = Timer /\ bufferMutex = Timer
    /\ \E p, q \in Producers :
         /\ pc[p] = "fl_lockcache" /\ Blocked(p)
         /\ pc[q] = "add" /\ Blocked(q)

\* Number of places envelope n is in: positions of the buffer, positions of the cache,
\* upload goroutines.
Places(n) ==
    Cardinality({k \in 1..Len(buffer) : buffer[k].id = n})
    + Cardinality({k \in 1..Len(cacheBuffer) : cacheBuffer[k].id = n})
    + Cardinality({t \in 1..Len(tasks) : tasks[t].env.id = n})

\* C13: every envelope an Add has appended is in exactly one place (one position of the
\* buffer, one position of the cache, or one upload goroutine), nothing else is in any
\* of them, and an envelope handed to an upload goroutine stays with that goroutine.
C13_NoLossNoDuplicate ==
    [][/\ \A n \in 1..Appended : Places(n) = 1
       /\ IdsOf(buffer) \cup IdsOf(cacheBuffer) \cup TaskIds \subseteq 1..Appended
       /\ \A t \in 1..Len(tasks) :
            t <= Len(tasks') /\ tasks'[t].env = tasks[t].env]_vars

\* An Add has just appended an envelope while another goroutine's Flush holds the
\* cache lock and is about to take the buffer lock; two earlier envelopes are with
\* upload goroutines.
C13_Witness ==
    /\ Len(buffer) = 1 /\ Len(tasks) = 2
    /\ \E p \in Procs : pc[p] = "fl_lockbuf" /\ cacheMutex = p
    /\ \E q \in Producers : pc[q] = "add_chkbuf"

\* C14 as claimed: while a Flush still holds the locks, none of the upload goroutines
\* it started has made a send attempt.
C14_NoSendBeforeUnlock ==
    \A p \in Procs :
        (pc[p] = "fl_defer" /\ (op[p] = "close" => nFlush = 1))
            => \A t \in started[p] : tasks[t] = NewTask(tasks[t].env)

\* C14 amended: Flush snapshots and clears the cache and starts the upload goroutines
\* while it holds both locks, and releases the locks without waiting for any of them;
\* an upload goroutine can make a send attempt at any time, locks held or not, and its
\* attempts touch neither lock nor collection.
C14_UploadsDetachedFromLocks ==
    /\ [](\A p \in Procs : pc[p] = "fl_defer" => ENABLED FlushDefer(p))
    /\ [](\A t \in 1..Len(tasks) : tasks[t].st = "running" => ENABLED TaskSend(t))
    /\ [][/\ Len(tasks') > Len(tasks) =>
               \E p \in Procs : /\ cacheMutex = p /\ bufferMutex = p
                                /\ cacheMutex' = p /\ bufferMutex' = p
                                /\ cacheBuffer' = <<>>
          /\ (\E t \in 1..Len(tasks) : tasks'[t] # tasks[t]) =>
               UNCHANGED <<bufferMutex, cacheMutex, buffer, cacheBuffer, pc>>]_vars

\* A goroutine is still in Flush, holding both locks, and an upload goroutine that this
\* Flush started has already made all its 3 attempts.
C14_Witness ==
    \E p \in Procs :
        /\ pc[p] = "fl_defer" /\ cacheMutex = p /\ bufferMutex = p
        /\ op[p] # "close"
        /\ \E t \in started[p] : tasks[t].st = "dropped"

\* The envelopes of q are in the order their Adds appended them.
InAppendOrder(q) == \A j, k \in 1..Len(q) : j < k => q[j].id < q[k].id

\* C15: the buffer and the cache list envelopes in the order their Adds appended them,
\* everything in the buffer is newer than everything in the cache, a Flush starts its
\* upload goroutines in that same order, and an Add puts its envelope behind all others.
C15_OrderUpToDispatch ==
    [][/\ InAppendOrder(cacheBuffer \o buffer)
       /\ InAppendOrder(cacheBuffer' \o buffer')
       /\ InAppendOrder(Dispatched)
       /\ Len(tasks') > Len(tasks) => Dispatched = cacheBuffer \o buffer
       /\ Len(buffer') > Len(buffer) =>
            /\ SubSeq(buffer', 1, Len(buffer)) = buffer
            /\ \A k \in 1..Len(buffer) :
                 buffer[k].id < buffer'[Len(buffer')].id]_vars

\* One Flush dispatched two envelopes in order, and the upload of the newer one has
\* finished while the upload of the older one has not made an attempt: completion
\* follows no order.
C15_Witness ==
    /\ last.op \in {"add", "flush", "timer"}
    /\ \E t1, t2 \in last.started :
         /\ t1 < t2 /\ tasks[t1].env.id < tasks[t2].env.id
         /\ tasks[t1].st = "running" /\ tasks[t1].i = 0
         /\ tasks[t2].st = "ok"

\* What the network does in an attempt that is to count as a success: compression (when
\* configured) works, the request gets a response, the response is a 200 whose body
\* parses and whose business status is 10000.
GoodNet(net) ==
    /\ ~(compress /\ net.gzipFails)
    /\ ~net.httpFails
    /\ net.status = 200
    /\ net.parses
    /\ net.Status = 10000

\* C16: a send attempt ends the retry loop as a success exactly when the transport
\* returned no error, the HTTP status is 200 and the decoded business status is 10000;
\* every other outcome consumes one attempt: the goroutine goes on to its next attempt,
\* or gives up if this was the third.
C16_SuccessTest ==
    [][\A t \in 1..Len(tasks), net \in NetBehaviours :
          (/\ tasks[t].st = "running"
           /\ tasks' = [tasks EXCEPT ![t] = attempt(tasks[t], send(net))])
          => IF GoodNet(net)
             THEN tasks'[t].st = "ok"
             ELSE \/ tasks[t].i < 2 /\ tasks'[t].st = "running"
                                     /\ tasks'[t].i = tasks[t].i + 1
                  \/ tasks[t].i = 2 /\ tasks'[t].st = "dropped"]_vars

\* Without compression: one upload was accepted, another has failed once and goes on.
C16_Witness ==
    /\ ~compress
    /\ \E t \in 1..Len(tasks) : tasks[t].st = "ok"
    /\ \E t \in 1..Len(tasks) : tasks[t].st = "running" /\ tasks[t].i = 1

\* C17: the ticker goroutine exists only when auto-flush is configured, and once Close
\* has returned it starts no Flush: the step that follows a return of Close is never
\* the ticker calling Flush.
C17_TimerStopsAtClose ==
    /\ [](pc[Timer] # "idle" => autoFlush)
    /\ [][last.op = "close" =>
            ~(pc[Timer] = "idle" /\ pc'[Timer] # "idle")]_vars

C19_CacheAlwaysEmpty ==
    /\ [](cacheMutex = NoProc => cacheBuffer = <<>>)
    /\ [](\A p \in Procs : pc[p] \in {"fl_lockbuf", "fl_body"} => cacheBuffer = <<>>)
    /\ [][\A p \in Procs :
            /\ (pc[p] = "add_chkcache" /\ pc'[p] # "add_chkcache") => pc'[p] = "idle"
            /\ (pc[p] = "fa_chkcache" /\ pc'[p] # "fa_chkcache") => pc'[p] = "fa_chkbuf"
            /\ (pc[p] = "fl_defer" /\ pc'[p] # "fl_defer") =>
                  cacheBuffer' = cacheBuffer]_vars

\* An Add reads the cache length after an earlier Flush has dispatched more envelopes
\* than the cache capacity.
C19_Witness ==
    /\ \E p \in Producers : pc[p] = "add_chkcache"
    /\ Len(tasks) > cacheCapacity
    /\ Len(buffer) = 1
    /\ cacheMutex = NoProc

\* Producers whose Add has appended and has not yet read a buffer length below the
\* batch size nor finished the Flush it went into.
InFlight ==
    {p \in Producers :
        op[p] = "add" /\ pc[p] \in {"add_chkbuf", "fl_lockcache", "fl_lockbuf", "fl_body"}}

\* C20: the buffer never holds more than batchSize - 1 envelopes plus one for each
\* producer whose Add is between its append and the end of its length check or Flush;
\* so it is below the batch size whenever no such Add is in progress, it never exceeds
\* batchSize - 1 + k for k producers, and no Flush starts more upload goroutines than
\* that.
C20_BufferBound ==
    /\ [](Len(buffer) <= batchSize - 1 + Cardinality(InFlight))
    /\ [](Len(buffer) <= batchSize - 1 + Cardinality(Producers))
    /\ []((last.op = "add" /\ \A p \in Producers : pc[p] = "idle")
            => Len(buffer) < batchSize)
    /\ [][Len(tasks') - Len(tasks) <= batchSize - 1 + Cardinality(Producers)]_vars

\* With two producers an Add's Flush has dispatched batchSize + 1 envelopes, more than
\* the batch size and more than the cache capacity.
C20_Witness ==
    /\ last.op = "add"
    /\ Cardinality(last.started) = batchSize - 1 + Cardinality(Producers)
    /\ Cardinality(last.started) > cacheCapacity
    /\ Cardinality(last.started) > batchSize

====
